---- MODULE Spec2Model ----
(***************************************************************************)
(* Model of run_audit (src/agent.py): the agent loop that asks a language  *)
(* model what to do, executes the tool calls it requests against an MCP    *)
(* session, feeds the results back as ToolMessages and stops on a reply    *)
(* without tool calls or after max_iterations model invocations.           *)
(*                                                                         *)
(* Python strings are TLA+ strings (Len, \o and SubSeq act on them as      *)
(* len, + and slicing do).  The awaits of ainvoke and of call_tool are    *)
(* split in two steps: the request leaving the program and the reply       *)
(* coming back.  SpecContent runs lines 94-117 alone, from the state in    *)
(* which the first tool call of a run awaits its outcome, on many more     *)
(* outcomes than Spec tries.                                               *)
(***************************************************************************)
EXTENDS Integers, Sequences, FiniteSets, TLC

VARIABLES
    pc,           \* position of run_audit in its code
    session,      \* the MCP ClientSession: "none", "open" or "closed"
    tools,        \* tools returned by load_mcp_tools
    messages,     \* the conversation history handed to the model
    iteration,    \* the loop counter
    response,     \* the last reply of llm_with_tools.ainvoke
    tc,           \* index of the current tool_call in response.tool_calls
    content_str,  \* the local content_str of the current tool call
    output,       \* what the program has printed, oldest first
    modelCalls,   \* number of llm_with_tools.ainvoke calls made
    invoked,      \* the session.call_tool requests sent, oldest first
    outcomes,     \* what each of them returned or raised, oldest first
    varied        \* number of replies of the environment that were not the plain one

vars == <<pc, session, tools, messages, iteration, response, tc, content_str,
          output, modelCalls, invoked, outcomes, varied>>

-----------------------------------------------------------------------------
(* Program constants *)

max_iterations == 10

TruncateLimit == 20000

TruncateMarker == "... [Truncated]"

NoTextPlaceholder == "Tool executed (no text output returned)."

ErrorPrefix == "Error executing tool: "

ExhaustedLine == "Max iterations reached. Agent got stuck in a loop."

TARGET_URL == "https://uni.sze.hu"

GDPR_AUDITOR_PROMPT == "You are a GDPR Compliance Auditor. Your goal is to audit the provided URL for a Cookie Consent Banner."

-----------------------------------------------------------------------------
(* Bounds of the environment *)

\* most tool calls the model puts in one reply
MaxCalls == 2

\* most replies of the model and of the tool provider, in one run, that
\* differ from the plain ones (PlainCalls, PlainOutcome)
MaxVaried == 2

\* SpecContent: most content parts in one CallToolResult
MaxParts == 2

-----------------------------------------------------------------------------
(* Strings *)

RECURSIVE Rep(_, _)
\* the Python expression c * n
Rep(c, n) ==
    IF n = 0 THEN ""
    ELSE IF n % 2 = 1 THEN c \o Rep(c, n - 1)
    ELSE LET h == Rep(c, n \div 2) IN h \o h

\* s.startswith(p)
StartsWith(s, p) == Len(s) >= Len(p) /\ SubSeq(s, 1, Len(p)) = p

-----------------------------------------------------------------------------
(* Messages (langchain_core.messages) *)

SystemMessage(content) == [type |-> "system", content |-> content]

HumanMessage(content) == [type |-> "human", content |-> content]

\* the reply of the model: text and the tool calls it requests
AIMessage(content, tool_calls) ==
    [type |-> "ai", content |-> content, tool_calls |-> tool_calls]

\* the id of the ToolMessage is taken from the wrong field of the tool call
ToolMessageWrongId(content, tool_call_id, name) ==
    [type |-> "tool", content |-> content, tool_call_id |-> name, name |-> name]

ToolMessage(content, tool_call_id, name) ==
    [type |-> "tool", content |-> content, tool_call_id |-> tool_call_id, name |-> name]

\* the value of response before the first reply
NoResponse == [type |-> "none"]

-----------------------------------------------------------------------------
(* The tool provider: the catalog it advertises and what call_tool gives *)

Catalog ==
    << [name |-> "navigate_page", inputSchema |-> [required |-> {"url"}]],
       [name |-> "take_snapshot", inputSchema |-> [required |-> {}]],
       [name |-> "click",         inputSchema |-> [required |-> {"uid"}]] >>

TextContent(text) == [type |-> "text", text |-> text]

ImageContent == [type |-> "image", data |-> "iVBORw0KGgo=", mimeType |-> "image/png"]

\* call_tool returned a CallToolResult
Returned(result) == [raised |-> FALSE, result |-> result]

\* call_tool raised an Exception e with str(e) = message
Raised(message) == [raised |-> TRUE, message |-> message]

CallToolResult(content, isError) == [content |-> content, isError |-> isError]

\* text around an image: the parts of a page snapshot
PlainOutcome ==
    Returned(CallToolResult(<<TextContent("Hel"), ImageContent, TextContent("lo")>>, FALSE))

VariedOutcomes ==
    { Returned(CallToolResult(<<>>, FALSE)),
      Raised("Connection closed") }

Outcomes == {PlainOutcome} \cup VariedOutcomes

-----------------------------------------------------------------------------
(* The model provider: the replies ainvoke can give *)

PlainCall == [name |-> "navigate_page", args |-> [url |-> TARGET_URL]]

CallKinds ==
    { PlainCall,
      [name |-> "click", args |-> [selector |-> "#accept"]] }

FinalTexts == {"FINAL REPORT: a cookie banner with Accept and Reject options is shown.", ""}

CallTexts == {"", "I will read the page first."}

\* the sequences over S of length 1..n
SeqsUpTo(S, n) == UNION { [1..k -> S] : k \in 1..n }

\* the id the provider gives the i-th tool call of its k-th reply
CallId(k, i) == "call_" \o ToString(k) \o "_" \o ToString(i)

WithIds(kinds, k) ==
    [i \in 1..Len(kinds) |-> [name |-> kinds[i].name, args |-> kinds[i].args, id |-> CallId(k, i)]]

\* how far a reply with tool calls is from the plain one (one PlainCall, no text)
ReplyCost(text, kinds) ==
    (Len(kinds) - 1) + Cardinality({i \in 1..Len(kinds) : kinds[i] # PlainCall})
    + (IF text = "" THEN 0 ELSE 1)

OutcomeCost(o) == IF o = PlainOutcome THEN 0 ELSE 1

-----------------------------------------------------------------------------
(* Lines 96-110: from the outcome of call_tool to content_str *)

RECURSIVE JoinText(_)
\* lines 99-101
JoinText(items) ==
    IF items = <<>> THEN ""
    ELSE LET item == Head(items) IN
         (IF "text" \in DOMAIN item THEN item.text ELSE "") \o JoinText(Tail(items))

\* lines 97-103
ParseContent(tool_result) ==
    IF "content" \in DOMAIN tool_result /\ tool_result.content # <<>>
    THEN JoinText(tool_result.content)
    ELSE NoTextPlaceholder

\* the marker is put in front of the kept characters
TruncateMarkerFirst(s) ==
    IF Len(s) > TruncateLimit
    THEN TruncateMarker \o SubSeq(s, 1, TruncateLimit)
    ELSE s

\* the comparison is >= instead of >
TruncateAtLimit(s) ==
    IF Len(s) >= TruncateLimit
    THEN SubSeq(s, 1, TruncateLimit) \o TruncateMarker
    ELSE s

\* lines 106-107
Truncate(s) ==
    IF Len(s) > TruncateLimit
    THEN SubSeq(s, 1, TruncateLimit) \o TruncateMarker
    ELSE s

\* str(e) alone
ErrorContentNoPrefix(message) == message

\* lines 109-110
ErrorContent(message) == ErrorPrefix \o message

\* lines 92-110
ToolContent(o) ==
    IF o.raised THEN ErrorContent(o.message)
    ELSE Truncate(ParseContent(o.result))

-----------------------------------------------------------------------------
(* What the program prints *)

ReportHeader == "\n" \o Rep("=", 20) \o " GDPR AUDIT REPORT " \o Rep("=", 20) \o "\n"

ReportFooter == "\n" \o Rep("=", 60)

StepLine(n, k) ==
    "Step " \o ToString(n) \o ": Agent wants to use " \o ToString(k) \o " tool(s)..."

ExecutingLine(name) == "   > Executing: " \o name

\* line 78 prints the delimiter again instead of the content
ReportLinesNoContent(content) == <<ReportHeader, ReportFooter, ReportFooter>>

\* lines 77-79
ReportLines(content) == <<ReportHeader, content, ReportFooter>>

-----------------------------------------------------------------------------
(* The conditions of the loop *)

\* <= instead of <
WhileConditionOffByOne(i) == i <= max_iterations

\* line 67
WhileCondition(i) == i < max_iterations

\* > instead of >=
ExhaustedConditionStrict(i) == i > max_iterations

\* line 119
ExhaustedCondition(i) == i >= max_iterations

-----------------------------------------------------------------------------
(* run_audit *)

Init ==
    /\ pc = "start"
    /\ session = "none"
    /\ tools = <<>>
    /\ messages = <<>>
    /\ iteration = 0
    /\ response = NoResponse
    /\ tc = 0
    /\ content_str = ""
    /\ output = <<>>
    /\ modelCalls = 0
    /\ invoked = <<>>
    /\ outcomes = <<>>
    /\ varied = 0

\* lines 44-47: the transport and the ClientSession are entered, or that fails
OpenSession ==
    /\ pc = "start"
    /\ output' = Append(output, "Connecting to Chrome DevTools MCP...")
    /\ \/ session' = "open" /\ pc' = "init"
       \/ session' = "none" /\ pc' = "failed"
    /\ UNCHANGED <<tools, messages, iteration, response, tc, content_str,
                   modelCalls, invoked, outcomes, varied>>

\* the session is entered without async with: an exception leaves it open
DiscoverLeaks ==
    /\ pc = "init"
    /\ \/ /\ tools' = Catalog
          /\ messages' = << SystemMessage(GDPR_AUDITOR_PROMPT),
                            HumanMessage("Audit this URL: " \o TARGET_URL) >>
          /\ iteration' = 0
          /\ output' = output \o << "Tools Loaded: " \o ToString(Len(Catalog)) \o " available.",
                                    "\nStarting Audit for " \o TARGET_URL \o "...\n" >>
          /\ pc' = "loop"
          /\ UNCHANGED session
       \/ /\ pc' = "failed"
          /\ UNCHANGED <<session, tools, messages, iteration, output>>
    /\ UNCHANGED <<response, tc, content_str, modelCalls, invoked, outcomes, varied>>

\* lines 48-65: initialize, load the tools, build the first two messages;
\* an exception leaves both async with blocks, which close the session
Discover ==
    /\ pc = "init"
    /\ \/ /\ tools' = Catalog
          /\ messages' = << SystemMessage(GDPR_AUDITOR_PROMPT),
                            HumanMessage("Audit this URL: " \o TARGET_URL) >>
          /\ iteration' = 0
          /\ output' = output \o << "Tools Loaded: " \o ToString(Len(Catalog)) \o " available.",
                                    "\nStarting Audit for " \o TARGET_URL \o "...\n" >>
          /\ pc' = "loop"
          /\ UNCHANGED session
       \/ /\ session' = "closed"
          /\ pc' = "failed"
          /\ UNCHANGED <<tools, messages, iteration, output>>
    /\ UNCHANGED <<response, tc, content_str, modelCalls, invoked, outcomes, varied>>

\* lines 67-71: the loop condition holds, the counter goes up, the model is asked
InvokeModel ==
    /\ pc = "loop"
    /\ WhileCondition(iteration)
    /\ iteration' = iteration + 1
    /\ modelCalls' = modelCalls + 1
    /\ pc' = "await_model"
    /\ UNCHANGED <<session, tools, messages, response, tc, content_str, output,
                   invoked, outcomes, varied>>

\* lines 71-80: the reply has no tool calls; it is appended, printed, and the loop is left
FinalReply ==
    /\ pc = "await_model"
    /\ \E text \in FinalTexts :
         /\ response' = AIMessage(text, <<>>)
         /\ messages' = Append(messages, response')
         /\ output' = output \o ReportLines(text)
    /\ pc' = "after"
    /\ UNCHANGED <<session, tools, iteration, tc, content_str, modelCalls,
                   invoked, outcomes, varied>>

\* a reply with text is taken for the final answer even when it asks for tools
ToolReplyStopsOnText ==
    /\ pc = "await_model"
    /\ \E text \in CallTexts, kinds \in SeqsUpTo(CallKinds, MaxCalls) :
         /\ varied + ReplyCost(text, kinds) <= MaxVaried
         /\ varied' = varied + ReplyCost(text, kinds)
         /\ response' = AIMessage(text, WithIds(kinds, modelCalls))
         /\ messages' = Append(messages, response')
         /\ IF text # ""
            THEN output' = output \o ReportLines(text) /\ pc' = "after"
            ELSE output' = Append(output, StepLine(iteration, Len(kinds))) /\ pc' = "tools"
    /\ tc' = 1
    /\ UNCHANGED <<session, tools, iteration, content_str, modelCalls, invoked, outcomes>>

\* lines 71-85: the reply asks for tools; it is appended and the for loop starts
ToolReply ==
    /\ pc = "await_model"
    /\ \E text \in CallTexts, kinds \in SeqsUpTo(CallKinds, MaxCalls) :
         /\ varied + ReplyCost(text, kinds) <= MaxVaried
         /\ varied' = varied + ReplyCost(text, kinds)
         /\ response' = AIMessage(text, WithIds(kinds, modelCalls))
         /\ messages' = Append(messages, response')
         /\ output' = Append(output, StepLine(iteration, Len(kinds)))
    /\ tc' = 1
    /\ pc' = "tools"
    /\ UNCHANGED <<session, tools, iteration, content_str, modelCalls, invoked, outcomes>>

\* the exception of ainvoke is swallowed and the loop goes on
ModelRaisesSwallowed ==
    /\ pc = "await_model"
    /\ pc' = "loop"
    /\ UNCHANGED <<session, tools, messages, iteration, response, tc, content_str, output,
                   modelCalls, invoked, outcomes, varied>>

\* line 71: ainvoke raises; nothing in run_audit catches it
ModelRaises ==
    /\ pc = "await_model"
    /\ session' = "closed"
    /\ pc' = "failed"
    /\ UNCHANGED <<tools, messages, iteration, response, tc, content_str, output,
                   modelCalls, invoked, outcomes, varied>>

\* the request names a tool of the catalog and carries every argument that the
\* tool's schema requires
ValidAgainst(catalog, name, arguments) ==
    \E k \in DOMAIN catalog :
       /\ catalog[k].name = name
       /\ catalog[k].inputSchema.required \subseteq DOMAIN arguments

\* a request that does not fit the schema is not sent to the session
CallToolValidates ==
    /\ pc = "tools"
    /\ LET tool_call == response.tool_calls[tc] IN
         /\ output' = Append(output, ExecutingLine(tool_call.name))
         /\ invoked' = IF ValidAgainst(tools, tool_call.name, tool_call.args)
                       THEN Append(invoked, [name |-> tool_call.name, arguments |-> tool_call.args])
                       ELSE invoked
    /\ pc' = "await_tool"
    /\ UNCHANGED <<session, tools, messages, iteration, response, tc, content_str,
                   modelCalls, outcomes, varied>>

\* the remaining tool calls of the reply are all sent at once
CallToolAll ==
    /\ pc = "tools"
    /\ LET tool_call == response.tool_calls[tc]
           rest == SubSeq(response.tool_calls, tc, Len(response.tool_calls)) IN
         /\ output' = Append(output, ExecutingLine(tool_call.name))
         /\ invoked' = invoked \o [k \in DOMAIN rest |->
                                     [name |-> rest[k].name, arguments |-> rest[k].args]]
    /\ pc' = "await_tool"
    /\ UNCHANGED <<session, tools, messages, iteration, response, tc, content_str,
                   modelCalls, outcomes, varied>>

\* the bound is checked again before each tool call: at the bound the calls of
\* the reply are dropped
CallToolBoundChecked ==
    /\ pc = "tools"
    /\ IF iteration >= max_iterations
       THEN /\ pc' = "after"
            /\ UNCHANGED <<output, invoked>>
       ELSE /\ LET tool_call == response.tool_calls[tc] IN
                 /\ output' = Append(output, ExecutingLine(tool_call.name))
                 /\ invoked' = Append(invoked, [name |-> tool_call.name,
                                                arguments |-> tool_call.args])
            /\ pc' = "await_tool"
    /\ UNCHANGED <<session, tools, messages, iteration, response, tc, content_str,
                   modelCalls, outcomes, varied>>

\* lines 85-94: the next tool call of the reply is sent to the session
CallTool ==
    /\ pc = "tools"
    /\ LET tool_call == response.tool_calls[tc] IN
         /\ output' = Append(output, ExecutingLine(tool_call.name))
         /\ invoked' = Append(invoked, [name |-> tool_call.name, arguments |-> tool_call.args])
    /\ pc' = "await_tool"
    /\ UNCHANGED <<session, tools, messages, iteration, response, tc, content_str,
                   modelCalls, outcomes, varied>>

\* a call that raised is sent once more before its error text is recorded
ToolReturnsWithRetry(o) ==
    /\ pc = "await_tool"
    /\ outcomes' = Append(outcomes, o)
    /\ content_str' = ToolContent(o)
    /\ invoked' = IF o.raised THEN Append(invoked, invoked[Len(invoked)]) ELSE invoked
    /\ LET tool_call == response.tool_calls[tc] IN
         messages' = Append(messages, ToolMessage(content_str', tool_call.id, tool_call.name))
    /\ IF tc < Len(response.tool_calls)
       THEN tc' = tc + 1 /\ pc' = "tools"
       ELSE tc' = tc /\ pc' = "loop"
    /\ UNCHANGED <<session, tools, iteration, response, output, modelCalls>>

\* the oldest message is dropped when the ToolMessage is added, to keep the
\* history short
ToolReturnsWithTrim(o) ==
    /\ pc = "await_tool"
    /\ outcomes' = Append(outcomes, o)
    /\ content_str' = ToolContent(o)
    /\ LET tool_call == response.tool_calls[tc] IN
         messages' = Append(Tail(messages), ToolMessage(content_str', tool_call.id, tool_call.name))
    /\ IF tc < Len(response.tool_calls)
       THEN tc' = tc + 1 /\ pc' = "tools"
       ELSE tc' = tc /\ pc' = "loop"
    /\ UNCHANGED <<session, tools, iteration, response, output, modelCalls, invoked>>

\* lines 94-117 for one outcome o of call_tool: content_str is built and the
\* ToolMessage appended; then the next tool call, or back to the while
ToolReturnsWith(o) ==
    /\ pc = "await_tool"
    /\ outcomes' = Append(outcomes, o)
    /\ content_str' = ToolContent(o)
    /\ LET tool_call == response.tool_calls[tc] IN
         messages' = Append(messages, ToolMessage(content_str', tool_call.id, tool_call.name))
    /\ IF tc < Len(response.tool_calls)
       THEN tc' = tc + 1 /\ pc' = "tools"
       ELSE tc' = tc /\ pc' = "loop"
    /\ UNCHANGED <<session, tools, iteration, response, output, modelCalls, invoked>>

\* lines 94-117: call_tool returns or raises
ToolReturns ==
    \E o \in Outcomes :
        /\ varied + OutcomeCost(o) <= MaxVaried
        /\ varied' = varied + OutcomeCost(o)
        /\ ToolReturnsWith(o)

\* the bound guards the body of the loop and not the loop itself
WhileExitSpins ==
    /\ pc = "loop"
    /\ ~WhileCondition(iteration)
    /\ pc' = "loop"
    /\ UNCHANGED <<session, tools, messages, iteration, response, tc, content_str,
                   output, modelCalls, invoked, outcomes, varied>>

\* line 67: the loop condition fails
WhileExit ==
    /\ pc = "loop"
    /\ ~WhileCondition(iteration)
    /\ pc' = "after"
    /\ UNCHANGED <<session, tools, messages, iteration, response, tc, content_str,
                   output, modelCalls, invoked, outcomes, varied>>

\* lines 119-120, and the async with blocks of lines 46-47 are left
AfterLoop ==
    /\ pc = "after"
    /\ output' = IF ExhaustedCondition(iteration)
                 THEN Append(output, ExhaustedLine)
                 ELSE output
    /\ session' = "closed"
    /\ pc' = "done"
    /\ UNCHANGED <<tools, messages, iteration, response, tc, content_str,
                   modelCalls, invoked, outcomes, varied>>

Next ==
    \/ OpenSession
    \/ Discover
    \/ InvokeModel
    \/ FinalReply
    \/ ToolReply
    \/ ModelRaises
    \/ CallTool
    \/ ToolReturns
    \/ WhileExit
    \/ AfterLoop

Spec == Init /\ [][Next]_vars

\* every await of run_audit returns or raises: a step that can be taken is taken
SpecFair == Spec /\ WF_vars(Next)

-----------------------------------------------------------------------------
(* Lines 92-117 alone, on many outcomes of call_tool *)

ContentTexts ==
    { Rep("a", n) : n \in {0, 1, TruncateLimit - 1, TruncateLimit, TruncateLimit + 1,
                           TruncateLimit + Len(TruncateMarker), 25000} }
    \cup { "Hello",
           Rep("b", TruncateLimit) \o TruncateMarker,
           Rep("b", TruncateLimit - Len(TruncateMarker)) \o TruncateMarker,
           ErrorPrefix \o "timeout" }

ContentParts == { TextContent(t) : t \in ContentTexts } \cup {ImageContent}

ContentLists == {<<>>} \cup SeqsUpTo(ContentParts, MaxParts)

ContentInputs ==
    { Returned(CallToolResult(c, e)) : c \in ContentLists, e \in BOOLEAN }
    \cup { Returned([isError |-> FALSE]) }
    \cup { Raised(t) : t \in ContentTexts }

\* the first plain tool call of a run is awaiting its outcome
InitContent ==
    /\ pc = "await_tool"
    /\ session = "open"
    /\ tools = Catalog
    /\ response = AIMessage("", WithIds(<<PlainCall>>, 1))
    /\ messages = << SystemMessage(GDPR_AUDITOR_PROMPT),
                     HumanMessage("Audit this URL: " \o TARGET_URL),
                     response >>
    /\ iteration = 1
    /\ tc = 1
    /\ content_str = ""
    /\ output = << "Connecting to Chrome DevTools MCP...",
                   "Tools Loaded: " \o ToString(Len(Catalog)) \o " available.",
                   "\nStarting Audit for " \o TARGET_URL \o "...\n",
                   StepLine(1, 1),
                   ExecutingLine(PlainCall.name) >>
    /\ modelCalls = 1
    /\ invoked = <<[name |-> PlainCall.name, arguments |-> PlainCall.args]>>
    /\ outcomes = <<>>
    /\ varied = 0

\* lines 94-117 on any of ContentInputs
ContentReturns ==
    /\ \E o \in ContentInputs : ToolReturnsWith(o)
    /\ UNCHANGED varied

NextContent == ContentReturns

SpecContent == InitContent /\ [][NextContent]_vars

-----------------------------------------------------------------------------
(* Reading the history and the output *)

IsAI(m) == m.type = "ai"

IsTool(m) == m.type = "tool"

AIMessages == SelectSeq(messages, IsAI)

ToolMessages == SelectSeq(messages, IsTool)

NumAI == Len(AIMessages)

RECURSIVE AllCalls(_)
\* the tool calls of a sequence of replies, in the order they were requested
AllCalls(ais) ==
    IF ais = <<>> THEN <<>> ELSE Head(ais).tool_calls \o AllCalls(Tail(ais))

Requested == AllCalls(AIMessages)

\* the positions in the history of the replies without tool calls
FinalIndices == {i \in DOMAIN messages : IsAI(messages[i]) /\ messages[i].tool_calls = <<>>}

HasFinal == FinalIndices # {}

ReportPositions == {j \in DOMAIN output : output[j] = ReportHeader}

ReportEmitted == ReportPositions # {}

ExhaustionEmitted == \E j \in DOMAIN output : output[j] = ExhaustedLine

\* run_audit is at the top of the while, waits for the model, or has left the loop
BetweenIterations == pc \in {"loop", "await_model", "after", "done", "failed"}

-----------------------------------------------------------------------------
(* C1: in every state of every run the number of AI messages in the        *)
(* history, and the number of model invocations made, is at most           *)
(* max_iterations.                                                         *)

C1_BoundedIterations ==
    /\ NumAI <= max_iterations
    /\ modelCalls <= max_iterations
    /\ NumAI <= modelCalls

\* ten replies are in the history and the run went on to its end
C1_Witness == NumAI = max_iterations /\ pc = "done" /\ Len(ToolMessages) >= max_iterations

-----------------------------------------------------------------------------
(* C2: whenever the model is about to be invoked, and when the run is      *)
(* over, every AI message with tool calls is followed in the history by    *)
(* exactly one ToolMessage per tool call, in the order of the calls, each  *)
(* carrying the id and the name of its call, and then by the next AI       *)
(* message or the end of the history.                                      *)

PairedAt(i) ==
    LET calls == messages[i].tool_calls
        n == Len(calls)
    IN  /\ i + n <= Len(messages)
        /\ \A j \in 1..n :
              /\ IsTool(messages[i + j])
              /\ messages[i + j].tool_call_id = calls[j].id
              /\ messages[i + j].name = calls[j].name
        /\ i + n < Len(messages) => IsAI(messages[i + n + 1])

C2_ResultsPairCalls ==
    BetweenIterations =>
        \A i \in DOMAIN messages :
            (IsAI(messages[i]) /\ messages[i].tool_calls # <<>>) => PairedAt(i)

\* a reply with two calls, the first of which raised and the second of
\* which returned, has been answered and the model is asked again
C2_Witness ==
    /\ pc = "await_model"
    /\ \E i \in DOMAIN messages :
          /\ IsAI(messages[i])
          /\ Len(messages[i].tool_calls) = 2
          /\ i + 2 = Len(messages)
          /\ StartsWith(messages[i + 1].content, ErrorPrefix)
          /\ ~StartsWith(messages[i + 2].content, ErrorPrefix)
          /\ messages[i].tool_calls[1].id # messages[i].tool_calls[2].id

-----------------------------------------------------------------------------
(* C3: the report and the exhaustion line are never both printed, and the  *)
(* exhaustion line is printed only in runs in which no reply without tool  *)
(* calls was received.                                                     *)

C3_DistinctOutcomes ==
    /\ ~(ReportEmitted /\ ExhaustionEmitted)
    /\ ExhaustionEmitted => ~HasFinal

-----------------------------------------------------------------------------
(* C4: when call_tool raises, the run goes on: the ToolMessage of that     *)
(* call is "Error executing tool: " followed by the message and carries    *)
(* the id of the call, the remaining calls of the reply are sent, and with *)
(* the counter below max_iterations the model is invoked next.             *)

C4_RaiseIsContained ==
    LET results == ToolMessages
        calls == Requested
    IN  /\ Len(results) = Len(outcomes)
        /\ Len(invoked) <= Len(calls)
        /\ \A j \in DOMAIN outcomes :
              outcomes[j].raised =>
                  /\ StartsWith(results[j].content, ErrorPrefix)
                  /\ results[j].content = ErrorPrefix \o outcomes[j].message
                  /\ results[j].tool_call_id = calls[j].id
        /\ (pc = "tools") = (Len(outcomes) = Len(invoked) /\ Len(invoked) < Len(calls))
        /\ (pc = "await_tool") = (Len(outcomes) < Len(invoked))
        /\ (pc = "loop" /\ iteration < max_iterations) => ENABLED InvokeModel

\* the first call of a reply raised, the second was still sent, and the
\* model was invoked again
C4_Witness ==
    /\ pc = "await_model"
    /\ Len(outcomes) >= 2
    /\ outcomes[Len(outcomes) - 1].raised
    /\ Len(AIMessages[NumAI].tool_calls) = 2
    /\ modelCalls = NumAI + 1

-----------------------------------------------------------------------------
(* C5: an outcome of call_tool that is an error, raised or returned with   *)
(* isError set, always gives a ToolMessage that starts with                *)
(* "Error executing tool: ".                                               *)

IsErrorOutcome(o) ==
    \/ o.raised
    \/ /\ ~o.raised
       /\ "isError" \in DOMAIN o.result
       /\ o.result.isError

C5_ReturnedErrorIsSubstituted ==
    LET results == ToolMessages
    IN  \A j \in DOMAIN outcomes :
            (j <= Len(results) /\ IsErrorOutcome(outcomes[j]))
                => StartsWith(results[j].content, ErrorPrefix)

-----------------------------------------------------------------------------
(* C6: once a reply without tool calls is in the history it is the last    *)
(* entry and the only such reply; the model was invoked exactly as many    *)
(* times as there are AI messages, at most max_iterations; every tool call *)
(* sent was requested by an earlier reply; the run has left the loop; and  *)
(* the report printed is the text of that reply.  With a first reply       *)
(* without tool calls no tool is ever invoked.                             *)

C6_FinalReplyEndsRun ==
    HasFinal =>
        /\ FinalIndices = {Len(messages)}
        /\ modelCalls = NumAI
        /\ iteration = NumAI
        /\ NumAI \in 1..max_iterations
        /\ pc \in {"after", "done"}
        /\ Len(invoked) = Len(Requested)
        /\ Len(outcomes) = Len(invoked)
        /\ Len(ToolMessages) = Len(invoked)
        /\ Cardinality(ReportPositions) = 1
        /\ \A j \in ReportPositions :
              /\ j + 2 <= Len(output)
              /\ output[j + 1] = messages[Len(messages)].content
              /\ output[j + 2] = ReportFooter
        /\ NumAI = 1 => invoked = <<>>

\* the tenth reply is the first without tool calls and the run is over
C6_Witness ==
    /\ HasFinal
    /\ NumAI = max_iterations
    /\ pc = "done"
    /\ messages[Len(messages)].content # ""

-----------------------------------------------------------------------------
(* C7: when ten replies with tool calls have been received the model is    *)
(* never invoked again and no report is printed; a run that has left the   *)
(* loop without a reply without tool calls made exactly max_iterations     *)
(* model invocations and printed the exhaustion line.                      *)

AllWithCalls == NumAI = max_iterations /\ ~HasFinal

C7_ExhaustedAfterTen ==
    /\ modelCalls <= max_iterations
    /\ AllWithCalls =>
          /\ modelCalls = max_iterations
          /\ pc \in {"tools", "await_tool", "loop", "after", "done"}
          /\ ~ReportEmitted
          /\ pc = "loop" => ~ENABLED InvokeModel
    /\ (pc = "done" /\ ~HasFinal) =>
          /\ AllWithCalls
          /\ ExhaustionEmitted
          /\ ~ReportEmitted

\* ten replies with tool calls, and the run is over
C7_Witness == AllWithCalls /\ pc = "done" /\ ExhaustionEmitted

-----------------------------------------------------------------------------
(* C8: truncating a truncated string changes nothing, and a truncated      *)
(* string is at most TruncateLimit + len(marker) long.                     *)

C8_TruncateIdempotent ==
    (outcomes # <<>> /\ ~outcomes[1].raised) =>
        /\ content_str = Truncate(ParseContent(outcomes[1].result))
        /\ Truncate(content_str) = content_str
        /\ Len(content_str) <= TruncateLimit + Len(TruncateMarker)

\* a string longer than TruncateLimit + len(marker) was truncated
C8_Witness ==
    /\ outcomes # <<>>
    /\ ~outcomes[1].raised
    /\ Len(ParseContent(outcomes[1].result)) > TruncateLimit + Len(TruncateMarker)
    /\ Len(content_str) = TruncateLimit + Len(TruncateMarker)

-----------------------------------------------------------------------------
(* C9: for a returned result that is not flagged as an error and has a     *)
(* textual part, the content of the ToolMessage is the texts of the parts  *)
(* joined in order when that is at most TruncateLimit long, and otherwise  *)
(* its first TruncateLimit characters followed by the marker.              *)

HasText(part) == "text" \in DOMAIN part

RECURSIVE Joined(_)
Joined(texts) == IF texts = <<>> THEN "" ELSE Head(texts).text \o Joined(Tail(texts))

TextOf(result) == Joined(SelectSeq(result.content, HasText))

SuccessWithText(o) ==
    /\ ~o.raised
    /\ "content" \in DOMAIN o.result
    /\ ~o.result.isError
    /\ \E k \in DOMAIN o.result.content : HasText(o.result.content[k])

C9_ContentOfSuccess ==
    (outcomes # <<>> /\ SuccessWithText(outcomes[1])) =>
        LET text == TextOf(outcomes[1].result)
            content == messages[Len(messages)].content
        IN  /\ IsTool(messages[Len(messages)])
            /\ Len(text) <= TruncateLimit => content = text
            /\ Len(text) > TruncateLimit =>
                  /\ Len(content) = TruncateLimit + Len(TruncateMarker)
                  /\ SubSeq(content, 1, TruncateLimit) = SubSeq(text, 1, TruncateLimit)
                  /\ SubSeq(content, TruncateLimit + 1, Len(content)) = TruncateMarker

\* a text of exactly TruncateLimit characters beside an image
C9_Witness ==
    /\ outcomes # <<>>
    /\ SuccessWithText(outcomes[1])
    /\ Len(outcomes[1].result.content) = 2
    /\ \E k \in DOMAIN outcomes[1].result.content : ~HasText(outcomes[1].result.content[k])
    /\ Len(TextOf(outcomes[1].result)) = TruncateLimit
    /\ Len(messages[Len(messages)].content) = TruncateLimit

-----------------------------------------------------------------------------
(* C10: every ToolMessage in the history has a content of at most          *)
(* TruncateLimit + len(marker) characters.                                 *)

C10_EveryContentBounded ==
    \A i \in DOMAIN messages :
        IsTool(messages[i]) => Len(messages[i].content) <= TruncateLimit + Len(TruncateMarker)

-----------------------------------------------------------------------------
(* C11: a returned result that is not flagged as an error and has no       *)
(* textual part, whether its content is empty or holds only non-textual    *)
(* parts, gives the placeholder as content, never the empty string.        *)

SuccessWithoutText(o) ==
    /\ ~o.raised
    /\ "content" \in DOMAIN o.result
    /\ ~o.result.isError
    /\ \A k \in DOMAIN o.result.content : ~HasText(o.result.content[k])

C11_PlaceholderWhenNoText ==
    (outcomes # <<>> /\ SuccessWithoutText(outcomes[1])) =>
        /\ IsTool(messages[Len(messages)])
        /\ messages[Len(messages)].content = NoTextPlaceholder
        /\ messages[Len(messages)].content # ""

-----------------------------------------------------------------------------
(* C12: a model invocation that raises ends the run at once: no AI message *)
(* is appended for it, nothing more is invoked, neither the report nor the *)
(* exhaustion line is printed, and run_audit takes no further step.  A     *)
(* model invocation without its AI message is either still awaited or has  *)
(* ended the run.                                                          *)

ModelFailed == pc = "failed" /\ modelCalls > 0

C12_ModelFailureIsFatal ==
    LET ais == NumAI
    IN  /\ modelCalls # ais => (pc \in {"await_model", "failed"} /\ modelCalls = ais + 1)
        /\ ModelFailed =>
              /\ modelCalls = ais + 1
              /\ iteration = modelCalls
              /\ ~IsAI(messages[Len(messages)])
              /\ Len(invoked) = Len(outcomes)
              /\ Len(invoked) = Len(Requested)
              /\ ~ReportEmitted
              /\ ~ExhaustionEmitted
              /\ ~ENABLED Next

\* the tenth model invocation raised, after nine replies with tool calls
C12_Witness ==
    /\ ModelFailed
    /\ modelCalls = max_iterations
    /\ NumAI = max_iterations - 1
    /\ Len(ToolMessages) >= max_iterations - 1

-----------------------------------------------------------------------------
(* C13: the session is open from its acquisition to the end of the run and *)
(* not after: it is open wherever run_audit is inside the with blocks, in  *)
(* particular while a tool call is in flight, it is closed in every        *)
(* terminal state reached after it was acquired, and a closed session is   *)
(* never opened again.                                                     *)

SessionInv ==
    /\ session \in {"none", "open", "closed"}
    /\ pc \in {"init", "loop", "await_model", "tools", "await_tool", "after"} => session = "open"
    /\ pc = "done" => session = "closed"
    /\ pc = "failed" => session \in {"none", "closed"}
    /\ (pc = "failed" /\ session = "none") =>
          (tools = <<>> /\ messages = <<>> /\ modelCalls = 0 /\ invoked = <<>>)
    /\ session = "none" => invoked = <<>>
    /\ pc = "start" => session = "none"

SessionStep ==
    /\ session = "closed" => session' = "closed"
    /\ session = "open" => session' # "none"
    /\ invoked' # invoked => (session = "open" /\ session' = "open")

C13_SessionScoped == []SessionInv /\ [][SessionStep]_vars

\* the session was closed by a model invocation that raised after tools had run
C13_Witness == session = "closed" /\ pc = "failed" /\ invoked # <<>>

-----------------------------------------------------------------------------
(* C14: the history only grows at its end: after every step the history    *)
(* before the step is a prefix of the history after it.  Once built, its   *)
(* first two entries are the SystemMessage and the HumanMessage and every  *)
(* later entry is an AI message or a ToolMessage.                          *)

IsPrefix(a, b) == Len(a) <= Len(b) /\ SubSeq(b, 1, Len(a)) = a

HistoryShape ==
    /\ messages = <<>> => pc \in {"start", "init", "failed"}
    /\ messages # <<>> =>
          /\ Len(messages) >= 2
          /\ messages[1] = SystemMessage(GDPR_AUDITOR_PROMPT)
          /\ messages[2] = HumanMessage("Audit this URL: " \o TARGET_URL)
          /\ \A i \in 3..Len(messages) : IsAI(messages[i]) \/ IsTool(messages[i])

C14_HistoryAppendOnly == []HistoryShape /\ [][IsPrefix(messages, messages')]_vars

\* a run that appended replies and tool results is over
C14_Witness ==
    /\ pc = "done"
    /\ Len(messages) >= 7
    /\ IsTool(messages[4])
    /\ IsAI(messages[Len(messages)])

-----------------------------------------------------------------------------
(* C15: when every step that can be taken is taken, every run reaches a    *)
(* terminal position (done or failed), also when every reply asks for      *)
(* tools; no step leaves a terminal position, and neither the counter nor  *)
(* the number of model invocations ever goes down.                         *)

Terminal == pc \in {"done", "failed"}

C15_Terminates ==
    /\ <>Terminal
    /\ [][~Terminal /\ iteration' >= iteration /\ modelCalls' >= modelCalls]_vars

\* a run in which all ten replies asked for tools is over
C15_Witness == pc = "done" /\ NumAI = max_iterations /\ ~HasFinal /\ Len(invoked) > max_iterations

-----------------------------------------------------------------------------
(* C16: whether the run goes on depends only on the tool calls of the      *)
(* reply: the report is printed exactly when a reply without tool calls is *)
(* in the history and is the text of that reply; the text of a reply with  *)
(* tool calls is never printed; and between iterations every tool call     *)
(* requested so far, also by a reply that carried text, has been sent.     *)

C16_StopOnlyWithoutCalls ==
    /\ ReportEmitted = HasFinal
    /\ \A j \in ReportPositions :
          /\ IsAI(messages[Len(messages)])
          /\ messages[Len(messages)].tool_calls = <<>>
          /\ output[j + 1] = messages[Len(messages)].content
    /\ \A i \in DOMAIN messages :
          (IsAI(messages[i]) /\ messages[i].tool_calls # <<>> /\ messages[i].content # "") =>
              \A j \in DOMAIN output : output[j] # messages[i].content
    /\ BetweenIterations => Len(invoked) = Len(Requested)
    /\ pc \in {"after", "done"} /\ ~HasFinal => NumAI = max_iterations

\* a reply with text and two tool calls was answered and the run went on to
\* a report
C16_Witness ==
    /\ pc = "done"
    /\ HasFinal
    /\ \E i \in DOMAIN messages :
          /\ IsAI(messages[i])
          /\ Len(messages[i].tool_calls) = 2
          /\ messages[i].content # ""
          /\ IsTool(messages[i + 1])
          /\ IsTool(messages[i + 2])

-----------------------------------------------------------------------------
(* C17, as stated: every request that was sent to the session names a tool *)
(* of the discovered catalog and carries the arguments its schema          *)
(* requires.                                                               *)

C17_ArgumentsValidated ==
    \A j \in DOMAIN invoked : ValidAgainst(tools, invoked[j].name, invoked[j].arguments)

(* C17, amended: nothing is validated.  Every requested call is sent to    *)
(* the session with the name and the arguments of the request, unchanged   *)
(* and in the order of the requests, whether or not they fit the schema of *)
(* the tool; the ToolMessage of the call carries what the session made of  *)
(* it.                                                                     *)

C17_Forwarded ==
    LET req == Requested
        tms == ToolMessages
    IN  /\ Len(invoked) <= Len(req)
        /\ BetweenIterations => Len(invoked) = Len(req)
        /\ \A j \in DOMAIN invoked :
              invoked[j] = [name |-> req[j].name, arguments |-> req[j].args]
        /\ Len(tms) = Len(outcomes)
        /\ \A j \in DOMAIN tms : tms[j].content = ToolContent(outcomes[j])

\* a step that sends a call sends the call the for loop is at, as requested
C17_Send ==
    invoked' # invoked =>
       /\ pc = "tools"
       /\ invoked' = Append(invoked, [name |-> response.tool_calls[tc].name,
                                      arguments |-> response.tool_calls[tc].args])

C17_ArgumentsForwardedUnchecked == []C17_Forwarded /\ [][C17_Send]_vars

\* a click without the uid that its schema requires was sent, and the session
\* returned a result for it
C17_Witness ==
    \E j \in DOMAIN outcomes :
       /\ ~ValidAgainst(tools, invoked[j].name, invoked[j].arguments)
       /\ invoked[j].name = "click"
       /\ outcomes[j] = PlainOutcome

-----------------------------------------------------------------------------
(* C18: tool calls are dispatched one at a time: at most one call is in    *)
(* flight, and only while the loop waits for it; a call is sent only when  *)
(* every earlier call has its ToolMessage in the history; and the model is *)
(* invoked only when every call requested so far has been answered.        *)

C18_OneInFlight ==
    LET tms == ToolMessages
        req == Requested
        inflight == Len(invoked) - Len(outcomes)
    IN  /\ inflight \in {0, 1}
        /\ (inflight = 1) = (pc = "await_tool")
        /\ Len(tms) = Len(outcomes)
        /\ pc = "await_tool" =>
              /\ Len(invoked) = Len(req) - Len(response.tool_calls) + tc
              /\ tc > 1 => IsTool(messages[Len(messages)])
        /\ pc = "tools" => Len(invoked) = Len(req) - Len(response.tool_calls) + tc - 1
        /\ modelCalls - NumAI \in {0, 1}
        /\ pc = "await_model" =>
              /\ modelCalls = NumAI + 1
              /\ Len(tms) = Len(req)
              /\ Len(invoked) = Len(req)
        /\ pc \in {"tools", "await_tool"} => modelCalls = NumAI

\* a call is sent, and the model invoked, only when no call is in flight; and
\* no step both sends a call and changes the history
C18_Start ==
    /\ invoked' # invoked =>
          /\ Len(invoked) = Len(outcomes)
          /\ Len(invoked') = Len(invoked) + 1
          /\ messages' = messages
          /\ modelCalls' = modelCalls
    /\ modelCalls' # modelCalls =>
          /\ pc = "loop"
          /\ Len(invoked) = Len(outcomes)
          /\ messages' = messages
    /\ (messages' # messages /\ messages # <<>>) => Len(messages') = Len(messages) + 1

C18_SequentialDispatch == []C18_OneInFlight /\ [][C18_Start]_vars

\* the second call of a reply is in flight and the result of the first is the
\* last entry of the history
C18_Witness ==
    /\ pc = "await_tool"
    /\ tc = 2
    /\ IsTool(messages[Len(messages)])
    /\ Len(invoked) = Len(outcomes) + 1

-----------------------------------------------------------------------------
(* C19: every requested call is sent exactly once, also when it raised:    *)
(* whenever the loop is at its top or behind its end, the calls sent are   *)
(* the calls requested, one ToolMessage each, in order; iteration is the   *)
(* number of AI messages; and the history has 2 + AI + Tool entries.       *)

IterationBoundary == pc \in {"loop", "after", "done"}

C19_ExactlyOnce ==
    LET tms == ToolMessages
        req == Requested
        ais == NumAI
    IN  IterationBoundary =>
           /\ Len(invoked) = Len(req)
           /\ Len(invoked) = Len(tms)
           /\ \A j \in DOMAIN req :
                 /\ invoked[j].name = req[j].name
                 /\ tms[j].tool_call_id = req[j].id
           /\ iteration = ais
           /\ Len(messages) = 2 + ais + Len(tms)

\* between two iterations, after a call that raised and a call that returned
C19_Witness ==
    /\ pc = "loop"
    /\ iteration >= 2
    /\ \E j \in DOMAIN outcomes : outcomes[j].raised
    /\ \E j \in DOMAIN outcomes : ~outcomes[j].raised

-----------------------------------------------------------------------------
(* C20: in a run that leaves the loop without a final reply, the calls of  *)
(* the 10th reply were all sent and answered: the history ends with their  *)
(* ToolMessages, which no model invocation has read, and the line about    *)
(* the maximum is printed only after them.                                 *)

Exhausted == pc \in {"after", "done"} /\ ~HasFinal

C20_AllAnswered ==
    LET ais == AIMessages IN
    /\ Exhausted =>
          LET last == ais[Len(ais)]
              n == Len(last.tool_calls)
          IN  /\ Len(ais) = max_iterations
              /\ modelCalls = max_iterations
              /\ n > 0
              /\ messages[Len(messages) - n] = last
              /\ Len(invoked) >= n
              /\ Len(outcomes) = Len(invoked)
              /\ \A k \in 1..n :
                    /\ IsTool(messages[Len(messages) - n + k])
                    /\ messages[Len(messages) - n + k].tool_call_id = last.tool_calls[k].id
                    /\ invoked[Len(invoked) - n + k].name = last.tool_calls[k].name
    /\ (ExhaustionEmitted /\ ~HasFinal) =>
          (pc = "done" /\ IsTool(messages[Len(messages)]))

\* the loop is left without a final reply only from its top, at the bound, with
\* a ToolMessage as the last entry; the line about the maximum is printed
\* behind the loop and leaves the history as it is
C20_Leave ==
    /\ (pc # "after" /\ pc' = "after" /\ ~HasFinal') =>
          /\ pc = "loop"
          /\ iteration = max_iterations
          /\ IsTool(messages[Len(messages)])
          /\ messages' = messages
          /\ invoked' = invoked
    /\ (~ExhaustionEmitted /\ ExhaustionEmitted') =>
          /\ pc = "after"
          /\ messages' = messages
          /\ invoked' = invoked

C20_LastCallsStillDispatched == []C20_AllAnswered /\ [][C20_Leave]_vars

\* the run is over, exhausted, and the 10th reply had asked for two tools
C20_Witness ==
    /\ pc = "done"
    /\ ~HasFinal
    /\ ExhaustionEmitted
    /\ Len(messages) >= 3
    /\ IsAI(messages[Len(messages) - 2])
    /\ IsTool(messages[Len(messages) - 1])
    /\ IsTool(messages[Len(messages)])

====
